---- MODULE Spec2Model ----
(***************************************************************************)
(* Strange-attractor visualiser: the catalog and solver entry point of     *)
(* attractors.py and the Streamlit script plot.py.                         *)
(*                                                                         *)
(* Numbers: every float of the catalog is held in hundredths (2.67 is 267, *)
(* a step of 0.01 is 1), so the order and the bounds of the values are     *)
(* exactly those of the source.                                            *)
(* A Python dict is a sequence of <<key, value>> pairs in insertion order  *)
(* with no key twice.                                                      *)
(***************************************************************************)
EXTENDS Integers, Sequences, FiniteSets, TLC

VARIABLES
    lookup_name,    \* the name last looked up in ATTRACTORS
    config,         \* the outcome of ATTRACTORS[name]: [error, value]
    param_values,   \* the dict handed to solve_attractor
    solution,       \* the outcome of solve_attractor: [error, equation, args, n]
    selected_name,  \* the "Select attractor" selectbox
    session_state,  \* st.session_state: widget keys and "saved_values"
    use_density,    \* the density checkbox
    animate,        \* the animate checkbox
    fig,            \* what the last script run drew: [points, color_len, frames]
    events,         \* number of user interactions so far
    last_event,     \* the widget whose change caused the last script run
    trajectory_len, \* len(x): the input of the framing code
    frames,         \* the outcome of the framing code: [made, names]
    xy,             \* the (x, y) projection of a trajectory
    sample_cap,     \* the cap on the size of the fitted sample
    indices,        \* the indices np.random.choice drew
    density         \* the outcome of the density code: [error, values]

vars == <<lookup_name, config, param_values, solution, selected_name,
          session_state, use_density, animate, fig, events, last_event,
          trajectory_len, frames, xy, sample_cap, indices, density>>

apiVars == <<lookup_name, config, param_values, solution>>
uiVars == <<selected_name, session_state, use_density, animate, fig, events,
           last_event>>
frameVars == <<trajectory_len, frames>>
densityVars == <<xy, sample_cap, indices, density>>

(***************************************************************************)
(* Bounds of the model and constants of the program.                       *)
(***************************************************************************)
MaxLen == 60          \* trajectory lengths 1..MaxLen are framed
MaxPoints == 4        \* trajectory lengths 1..MaxPoints get a density
MaxCap == 4           \* sample caps 1..MaxCap
MaxOverrides == 1     \* entries of a hand-built mapping that differ from the default
MaxEvents == 3        \* user interactions in one session

FrameDivisor == 300   \* len(x) // 300
DensitySampleSize == 1000  \* min(1000, n)

Max(a, b) == IF a >= b THEN a ELSE b
Min(a, b) == IF a <= b THEN a ELSE b

(***************************************************************************)
(* attractors.py: the catalog.                                             *)
(***************************************************************************)
AttractorParam(name, default, min_val, max_val, step) ==
    [name |-> name, default |-> default, min_val |-> min_val,
     max_val |-> max_val, step |-> step]

\* The number of parameters each equation takes after (x_var, t).
EquationArity(equation) ==
    CASE equation = "lorenz" -> 3
      [] equation = "rossler" -> 3
      [] equation = "dadras" -> 5
      [] OTHER -> 0

lorenz_attractor ==
    [name |-> "lorenz",
     equation |-> "lorenz",
     params |-> << AttractorParam("sigma", 1000, 0, 5000, 10),
                   AttractorParam("rho", 2800, 0, 5000, 10),
                   AttractorParam("beta", 267, 0, 5000, 10) >>,
     initial_conditions |-> <<0, 150, 1500>>,
     time_defaults |-> [t_min |-> 0, t_max |-> 50, n |-> 10000]]

rossler_attractor ==
    [name |-> "Rossler attractor",
     equation |-> "rossler",
     params |-> << AttractorParam("a", 20, 0, 100, 1),
                   AttractorParam("b", 20, 0, 100, 1),
                   AttractorParam("c", 570, 0, 2000, 1) >>,
     initial_conditions |-> <<100, 100, 100>>,
     time_defaults |-> [t_min |-> 0, t_max |-> 100, n |-> 10000]]

dadras_attractor ==
    [name |-> "Dadras attractor",
     equation |-> "dadras",
     params |-> << AttractorParam("a", 300, -1000, 1000, 10),
                   AttractorParam("b", 270, -1000, 1000, 10),
                   AttractorParam("c", 170, -1000, 1000, 10),
                   AttractorParam("d", 200, -1000, 1000, 10),
                   AttractorParam("e", 900, -1000, 1000, 10) >>,
     initial_conditions |-> <<110, 210, -200>>,
     time_defaults |-> [t_min |-> 0, t_max |-> 75, n |-> 10000]]

ATTRACTORS ==
    [k \in {"Lorenz", "Rossler", "Dadras"} |->
        CASE k = "Lorenz" -> lorenz_attractor
          [] k = "Rossler" -> rossler_attractor
          [] k = "Dadras" -> dadras_attractor]

\* list(ATTRACTORS.keys())
AttractorNames == DOMAIN ATTRACTORS

NoConfig ==
    [name |-> "", equation |-> "", params |-> <<>>,
     initial_conditions |-> <<>>,
     time_defaults |-> [t_min |-> 0, t_max |-> 0, n |-> 0]]

\* A mutant of GetAttractor: a lookup that falls back to the first entry.
GetAttractorOrFirst(name) ==
    IF name \in DOMAIN ATTRACTORS
    THEN [error |-> "none", value |-> ATTRACTORS[name]]
    ELSE [error |-> "none", value |-> lorenz_attractor]

\* ATTRACTORS[name]: the entry, or Python's KeyError for a key not in the dict.
GetAttractor(name) ==
    IF name \in DOMAIN ATTRACTORS
    THEN [error |-> "none", value |-> ATTRACTORS[name]]
    ELSE [error |-> "KeyError", value |-> NoConfig]

(***************************************************************************)
(* Python dicts as insertion-ordered sequences of pairs.                   *)
(***************************************************************************)
DictKeys(d) == {d[i][1] : i \in 1..Len(d)}

DictHas(d, k) == k \in DictKeys(d)

\* d[k], for a key the dict holds
DictGet(d, k) == d[CHOOSE i \in 1..Len(d) : d[i][1] = k][2]

\* d[k] = v: in place for a key the dict holds, appended otherwise
DictSet(d, k, v) ==
    IF DictHas(d, k)
    THEN [i \in 1..Len(d) |-> IF d[i][1] = k THEN <<k, v>> ELSE d[i]]
    ELSE Append(d, <<k, v>>)

ParamNamesOf(cfg) == {cfg.params[i].name : i \in 1..Len(cfg.params)}

(***************************************************************************)
(* attractors.py: solve_attractor and get_default_params.                  *)
(***************************************************************************)
\* A mutant of SolveArgs: the values in the mapping's own order.
SolveArgsInMappingOrder(cfg, values) ==
    IF \E i \in 1..Len(cfg.params) : ~DictHas(values, cfg.params[i].name)
    THEN [error |-> "KeyError", args |-> <<>>]
    ELSE [error |-> "none",
          args |-> [i \in 1..Len(cfg.params) |-> values[i][2]]]

\* args = tuple(param_values[p.name] for p in config.params)
SolveArgs(cfg, values) ==
    IF \E i \in 1..Len(cfg.params) : ~DictHas(values, cfg.params[i].name)
    THEN [error |-> "KeyError", args |-> <<>>]
    ELSE [error |-> "none",
          args |-> [i \in 1..Len(cfg.params) |->
                        DictGet(values, cfg.params[i].name)]]

\* odeint(config.equation, config.initial_conditions, t, args=args): the
\* solver calls equation(x_var, t, *args) and returns one row per point of t,
\* the first being the initial conditions.
Odeint(equation, initial_conditions, n, args) ==
    IF Len(args) # EquationArity(equation)
    THEN [error |-> "TypeError", equation |-> equation, args |-> args,
          first |-> <<>>, n |-> 0]
    ELSE [error |-> "none", equation |-> equation, args |-> args,
          first |-> initial_conditions, n |-> n]

solve_attractor(cfg, values) ==
    LET n == cfg.time_defaults.n     \* np.linspace(t_min, t_max, n) has n points
        a == SolveArgs(cfg, values)
    IN  IF a.error # "none"
        THEN [error |-> a.error, equation |-> cfg.equation, args |-> <<>>,
              first |-> <<>>, n |-> 0]
        ELSE Odeint(cfg.equation, cfg.initial_conditions, n, a.args)

get_default_params(cfg) ==
    [i \in 1..Len(cfg.params) |-> <<cfg.params[i].name, cfg.params[i].default>>]

NoSolution ==
    [error |-> "not called", equation |-> "", args |-> <<>>, first |-> <<>>,
     n |-> 0]

(***************************************************************************)
(* plot.py: the animation frames (lines 89-102).                           *)
(***************************************************************************)
\* len(range(start, stop, step)) for step > 0
RangeLen(start, stop, step) ==
    IF stop > start THEN ((stop - start - 1) \div step) + 1 ELSE 0

\* list(range(start, stop, step)) for step > 0
PyRange(start, stop, step) ==
    [k \in 1..RangeLen(start, stop, step) |-> start + (k - 1) * step]

\* A mutant of FrameStops: the stops run through len(x) itself.
FrameStopsInclusive(n) ==
    LET step == Max(1, n \div FrameDivisor)
    IN  PyRange(step, n + 1, step)

\* step = max(1, len(x) // 300); for i in range(step, len(x), step)
FrameStops(n) ==
    LET step == Max(1, n \div FrameDivisor)
    IN  PyRange(step, n, step)

\* frames: one go.Frame per stop i, named str(i) and holding x[:i], y[:i],
\* z[:i]. A frame is held as its stop i; its data has min(i, n) points.
MakeFrames(n) == [made |-> TRUE, names |-> FrameStops(n)]

FrameLen(i, n) == Min(i, n)

(***************************************************************************)
(* plot.py: the density colouring (lines 78-86).                           *)
(***************************************************************************)
\* np.random.choice(n, size, replace=False): every array of `size` distinct
\* indices of 0..n-1 is a possible draw.
RandomChoice(n, size) ==
    {s \in [1..size -> 0..(n - 1)] :
        \A i, j \in 1..size : i # j => s[i] # s[j]}

Dist2(p, q) == (p[1] - q[1]) * (p[1] - q[1]) + (p[2] - q[2]) * (p[2] - q[2])

Collinear(pts) ==
    \A i, j, k \in 1..Len(pts) :
        (pts[j][1] - pts[i][1]) * (pts[k][2] - pts[i][2])
            = (pts[k][1] - pts[i][1]) * (pts[j][2] - pts[i][2])

\* gaussian_kde(dataset): the fit needs more than one point and a covariance
\* matrix that is not singular, which it is when the points lie on one line.
GaussianKde(dataset) ==
    IF Len(dataset) <= 1 THEN [error |-> "ValueError", dataset |-> <<>>]
    ELSE IF Collinear(dataset)
         THEN [error |-> "LinAlgError", dataset |-> <<>>]
         ELSE [error |-> "none", dataset |-> dataset]

\* kde(point): a sum over the fitted points of a kernel that falls with the
\* distance; the kernel is held as 1 within squared distance 1 and 0 beyond.
KdeAt(kde, p) ==
    Cardinality({i \in 1..Len(kde.dataset) : Dist2(kde.dataset[i], p) <= 1})

\* A mutant of KdeEvaluate: the estimate only at the points that were fitted.
KdeEvaluateDataset(kde, points) ==
    [j \in 1..Len(kde.dataset) |-> KdeAt(kde, kde.dataset[j])]

\* kde(np.vstack([x, y])): one value per column, in order
KdeEvaluate(kde, points) ==
    [j \in 1..Len(points) |-> KdeAt(kde, points[j])]

\* lines 80-83, with the cap (1000 in the source) and the draw as arguments
EstimateDensity(points, cap, drawn) ==
    LET kde == GaussianKde([i \in 1..Len(drawn) |-> points[drawn[i] + 1]])
    IN  IF kde.error # "none"
        THEN [error |-> kde.error, values |-> <<>>]
        ELSE [error |-> "none", values |-> KdeEvaluate(kde, points)]

(***************************************************************************)
(* plot.py: the script, run once per user interaction.                     *)
(*                                                                         *)
(* Streamlit, as the script uses it: a widget with a key returns           *)
(* st.session_state[key] when the key is set and otherwise its `value`     *)
(* argument, which it stores under the key; an on_click callback runs      *)
(* before the script run its click causes; a button returns True only in   *)
(* the run its click causes; after a run the runtime may drop the state of *)
(* the widgets the run did not render.                                     *)
(***************************************************************************)
\* list(ATTRACTORS.keys()), the options of the selectbox
AttractorOptions == <<"Lorenz", "Rossler", "Dadras">>

SessionSet(ss, k, v) ==
    [x \in (DOMAIN ss) \cup {k} |-> IF x = k THEN v ELSE ss[x]]

\* A mutant of SliderKey: the key is the parameter's name alone.
SliderKeyByParam(name, param_name) == param_name

\* f"{selected_name}_{param.name}"
SliderKey(name, param_name) == name \o "_" \o param_name

SliderKeys(name, cfg) ==
    {SliderKey(name, cfg.params[i].name) : i \in 1..Len(cfg.params)}

\* A mutant of reset_parameters: the whole session state is emptied.
reset_clears_session(cfg, name, ss) == << >>

\* reset_parameters(config, selected_name)
reset_parameters(cfg, name, ss) ==
    LET params == get_default_params(cfg)
        keys == {SliderKey(name, params[i][1]) : i \in 1..Len(params)}
    IN  [x \in (DOMAIN ss) \cup keys |->
            IF x \in keys
            THEN params[CHOOSE i \in 1..Len(params) :
                            SliderKey(name, params[i][1]) = x][2]
            ELSE ss[x]]

\* config_container.slider(..., value=param.default, key=key)
Slider(ss, key, p) == IF key \in DOMAIN ss THEN ss[key] ELSE p.default

\* The session state once the sliders of lines 38-48 are rendered.
SlidersRendered(ss, name, cfg) ==
    [x \in (DOMAIN ss) \cup SliderKeys(name, cfg) |->
        IF x \in DOMAIN ss
        THEN ss[x]
        ELSE cfg.params[CHOOSE i \in 1..Len(cfg.params) :
                            SliderKey(name, cfg.params[i].name) = x].default]

\* One run of plot_attractor with the widgets as given: `pressed` is the
\* "Save values" button. Yields the session state, the call made to
\* solve_attractor with its outcome, and the figure.
plot_attractor(name, ss, pressed, dens, anim) ==
    LET cfg == ATTRACTORS[name]
        ss1 == IF "saved_values" \in DOMAIN ss
               THEN ss ELSE SessionSet(ss, "saved_values", <<>>)
        values == [i \in 1..Len(cfg.params) |->
                      <<cfg.params[i].name,
                        Slider(ss1, SliderKey(name, cfg.params[i].name),
                               cfg.params[i])>>]
        ss2 == SlidersRendered(ss1, name, cfg)
        ss3 == IF pressed
               THEN SessionSet(ss2, "saved_values",
                        Append(ss2["saved_values"],
                            [i \in 1..Len(cfg.params) |->
                                <<cfg.params[i].name,
                                  DictGet(values, cfg.params[i].name)>>]))
               ELSE ss2
        sol == solve_attractor(cfg, values)
        n == cfg.time_defaults.n
    IN  [session |-> ss3,
         config |-> cfg,
         values |-> values,
         solution |-> sol,
         fig |-> IF sol.error # "none"
                 THEN [drawn |-> TRUE, points |-> 0, fit_size |-> 0,
                       color_len |-> 0, frames |-> <<>>]
                 ELSE [drawn |-> TRUE,
                       points |-> IF anim THEN Max(1, sol.n \div FrameDivisor)
                                  ELSE sol.n,
                       fit_size |-> IF dens THEN Min(DensitySampleSize, n)
                                    ELSE 0,
                       color_len |-> IF dens THEN sol.n ELSE 0,
                       frames |-> IF anim THEN MakeFrames(sol.n).names
                                  ELSE <<>>]]

\* The session state the runtime keeps after a run that rendered the sliders
\* of `name`: all of it, or all but the state of the sliders not rendered.
Kept(ss, name, discard) ==
    IF discard
    THEN [x \in {k \in DOMAIN ss :
                    k = "saved_values"
                    \/ k \in SliderKeys(name, ATTRACTORS[name])} |-> ss[x]]
    ELSE ss

(***************************************************************************)
(* Values the other specifications leave alone.                            *)
(***************************************************************************)
NoLookup == [error |-> "not called", value |-> NoConfig]
NoFig == [drawn |-> FALSE, points |-> 0, fit_size |-> 0, color_len |-> 0,
          frames |-> <<>>]
NoFrames == [made |-> FALSE, names |-> <<>>]
NoDensity == [error |-> "not called", values |-> <<>>]

ApiIdle ==
    /\ lookup_name = ""
    /\ config = NoLookup
    /\ param_values = <<>>
    /\ solution = NoSolution

UiIdle ==
    /\ selected_name = ""
    /\ session_state = <<>>
    /\ use_density = FALSE
    /\ animate = FALSE
    /\ fig = NoFig
    /\ events = 0
    /\ last_event = ""

FrameIdle ==
    /\ trajectory_len = 0
    /\ frames = NoFrames

DensityIdle ==
    /\ xy = <<>>
    /\ sample_cap = 0
    /\ indices = <<>>
    /\ density = NoDensity

(***************************************************************************)
(* SpecApi: a caller of attractors.py looks a name up, builds a mapping    *)
(* entry by entry and calls solve_attractor with it.                       *)
(***************************************************************************)
ExtraName == "zeta"

LookupNames == AttractorNames \cup {"Nonexistent", "lorenz"}

ParamByName(cfg, name) ==
    cfg.params[CHOOSE i \in 1..Len(cfg.params) : cfg.params[i].name = name]

\* The values a caller may put under a key: the bounds of the parameter, its
\* default, and one step beyond either bound.
ValueChoices(cfg, k) ==
    IF k \in ParamNamesOf(cfg)
    THEN LET p == ParamByName(cfg, k)
         IN  {p.min_val - p.step, p.min_val, p.default, p.max_val,
              p.max_val + p.step}
    ELSE {0}

\* The entries of a mapping that are not the default of their parameter.
Overrides(cfg, values) ==
    {i \in 1..Len(values) :
        /\ values[i][1] \in ParamNamesOf(cfg)
        /\ values[i][2] # ParamByName(cfg, values[i][1]).default}

InRange(p, v) == p.min_val <= v /\ v <= p.max_val

InitApi ==
    /\ ApiIdle
    /\ UiIdle
    /\ FrameIdle
    /\ DensityIdle

ApiLookup(name) ==
    /\ config.error = "not called"
    /\ lookup_name' = name
    /\ config' = GetAttractor(name)
    /\ UNCHANGED <<param_values, solution>>
    /\ UNCHANGED <<uiVars, frameVars, densityVars>>

ApiSetItem(k, v) ==
    /\ config.error = "none"
    /\ solution.error = "not called"
    /\ Cardinality(Overrides(config.value, DictSet(param_values, k, v)))
           <= MaxOverrides
    /\ param_values' = DictSet(param_values, k, v)
    /\ UNCHANGED <<lookup_name, config, solution>>
    /\ UNCHANGED <<uiVars, frameVars, densityVars>>

ApiSolve ==
    /\ config.error = "none"
    /\ solution.error = "not called"
    /\ solution' = solve_attractor(config.value, param_values)
    /\ UNCHANGED <<lookup_name, config, param_values>>
    /\ UNCHANGED <<uiVars, frameVars, densityVars>>

NextApi ==
    \/ \E name \in LookupNames : ApiLookup(name)
    \/ \E k \in ParamNamesOf(config.value) \cup {ExtraName} :
          \E v \in ValueChoices(config.value, k) : ApiSetItem(k, v)
    \/ ApiSolve

SpecApi == InitApi /\ [][NextApi]_vars

Solved == solution.error # "not called"

\* The entries of the mapping handed in that lie outside their parameter's
\* [min_val, max_val].
OutOfRange(cfg, values) ==
    {i \in 1..Len(values) :
        /\ values[i][1] \in ParamNamesOf(cfg)
        /\ ~InRange(ParamByName(cfg, values[i][1]), values[i][2])}

HasExtraName(cfg, values) == ~(DictKeys(values) \subseteq ParamNamesOf(cfg))

\* C3: solve fails with ParameterRangeError exactly when an override lies
\* strictly outside its parameter's [min, max]; an out-of-range value never
\* reaches the integrator.
C3_RangeChecked ==
    Solved /\ ~HasExtraName(config.value, param_values) =>
        /\ (solution.error = "ParameterRangeError")
               <=> (OutOfRange(config.value, param_values) # {})
        /\ OutOfRange(config.value, param_values) # {} => solution.n = 0

\* C4: with every supplied value in range and no unknown name, solve succeeds
\* whether the mapping is empty, partial or full: a missing parameter takes
\* its default and the trajectory has time_defaults.n samples.
C4_DefaultsFilled ==
    (/\ Solved
     /\ ~HasExtraName(config.value, param_values)
     /\ OutOfRange(config.value, param_values) = {}) =>
        /\ solution.error = "none"
        /\ solution.n = config.value.time_defaults.n
        /\ Len(solution.args) = Len(config.value.params)
        /\ \A i \in 1..Len(config.value.params) :
              LET p == config.value.params[i]
              IN  solution.args[i] =
                      IF DictHas(param_values, p.name)
                      THEN DictGet(param_values, p.name)
                      ELSE p.default

\* C5: a name that is not registered fails the lookup (Python's KeyError for
\* ATTRACTORS[name] is the unknown-attractor error); each of the names
\* Lorenz, Rossler, Dadras, which are all the names, yields its definition.
C5_LookupFailsOrResolves ==
    /\ AttractorNames = {"Lorenz", "Rossler", "Dadras"}
    /\ config.error # "not called" =>
          /\ lookup_name \notin {"Lorenz", "Rossler", "Dadras"} =>
                config.error = "KeyError" /\ config.value.params = <<>>
          /\ lookup_name = "Lorenz" =>
                config.error = "none" /\ config.value.equation = "lorenz"
          /\ lookup_name = "Rossler" =>
                config.error = "none" /\ config.value.equation = "rossler"
          /\ lookup_name = "Dadras" =>
                config.error = "none" /\ config.value.equation = "dadras"

C5_Witness ==
    /\ lookup_name = "Nonexistent"
    /\ config.error = "KeyError"

\* C6: a mapping holding a name that is not in the schema makes solve fail
\* with UnknownParameterError, and no trajectory is returned.
C6_UnknownNameRejected ==
    Solved /\ HasExtraName(config.value, param_values) =>
        /\ solution.error = "UnknownParameterError"
        /\ solution.n = 0

\* C7: when solve reaches the equation, the i-th argument after (state, t) is
\* the mapping's value for the i-th parameter of the schema, whatever the
\* order of the mapping's keys, and the equation gets as many arguments as it
\* takes.
C7_ArgsInSchemaOrder ==
    /\ \A k \in AttractorNames :
          Len(ATTRACTORS[k].params) = EquationArity(ATTRACTORS[k].equation)
    /\ solution.error = "none" =>
          /\ Len(solution.args) = EquationArity(solution.equation)
          /\ \A i \in 1..Len(config.value.params) :
                \A j \in 1..Len(param_values) :
                    param_values[j][1] = config.value.params[i].name =>
                        solution.args[i] = param_values[j][2]

\* A mapping whose keys are not in schema order, holding an override, solved.
C7_Witness ==
    /\ solution.error = "none"
    /\ lookup_name = "Dadras"
    /\ param_values[1][1] = "e"
    /\ Overrides(config.value, param_values) # {}

(***************************************************************************)
(* SpecFrames: the framing code applied to trajectories of many lengths.   *)
(***************************************************************************)
TrajectoryLens ==
    (1..MaxLen)
    \cup {ATTRACTORS[k].time_defaults.n : k \in AttractorNames}
    \cup {FrameDivisor * m + r : m \in 1..3, r \in {0, 1, FrameDivisor - 1}}

InitFrames ==
    /\ ApiIdle
    /\ UiIdle
    /\ DensityIdle
    /\ trajectory_len \in TrajectoryLens
    /\ frames = NoFrames

Animate ==
    /\ ~frames.made
    /\ frames' = MakeFrames(trajectory_len)
    /\ UNCHANGED trajectory_len
    /\ UNCHANGED <<apiVars, uiVars, densityVars>>

NextFrames == Animate

SpecFrames == InitFrames /\ [][NextFrames]_vars

\* C1: the framing code emits at most 300 frames, whatever the length of the
\* trajectory.
C1_AtMostMaxFrames ==
    frames.made => Len(frames.names) <= FrameDivisor

\* C2: the last frame of a non-empty trajectory holds the whole trajectory.
C2_LastFrameIsWhole ==
    frames.made /\ trajectory_len >= 1 =>
        /\ Len(frames.names) >= 1
        /\ FrameLen(frames.names[Len(frames.names)], trajectory_len)
               = trajectory_len

(***************************************************************************)
(* SpecDensity: the density code applied to small trajectories, with the   *)
(* cap on the fitted sample as an input.                                   *)
(***************************************************************************)
Points == {0, 1} \X {0, 1}

InitDensity ==
    /\ ApiIdle
    /\ UiIdle
    /\ FrameIdle
    /\ \E n \in 1..MaxPoints : xy \in [1..n -> Points]
    /\ sample_cap \in 1..MaxCap
    /\ indices = <<>>
    /\ density = NoDensity

UseDensity ==
    /\ density.error = "not called"
    /\ \E drawn \in RandomChoice(Len(xy), Min(sample_cap, Len(xy))) :
          /\ indices' = drawn
          /\ density' = EstimateDensity(xy, sample_cap, drawn)
    /\ UNCHANGED <<xy, sample_cap>>
    /\ UNCHANGED <<apiVars, uiVars, frameVars>>

NextDensity == UseDensity

SpecDensity == InitDensity /\ [][NextDensity]_vars

\* C8: whenever the density code returns, it returns one value per sample of
\* the trajectory, the j-th being the estimate at the j-th sample; the model
\* was fitted on min(cap, length) distinct indices of the trajectory.
C8_DensityPerSample ==
    density.error = "none" =>
        /\ Len(density.values) = Len(xy)
        /\ Len(indices) = Min(sample_cap, Len(xy))
        /\ \A i \in 1..Len(indices) : indices[i] \in 0..(Len(xy) - 1)
        /\ \A i, j \in 1..Len(indices) : i # j => indices[i] # indices[j]
        /\ \A j \in 1..Len(xy) :
              density.values[j] =
                  Cardinality({i \in 1..Len(indices) :
                                  Dist2(xy[indices[i] + 1], xy[j]) <= 1})

\* A fit on a strict subsample that succeeded, with densities that differ.
C8_Witness ==
    /\ density.error = "none"
    /\ Len(indices) = sample_cap
    /\ sample_cap < Len(xy)
    /\ \E j, k \in 1..Len(xy) : density.values[j] # density.values[k]

(***************************************************************************)
(* Spec: one browser session of the app.                                   *)
(***************************************************************************)
Init ==
    /\ ApiIdle
    /\ FrameIdle
    /\ DensityIdle
    /\ selected_name = AttractorOptions[1]
    /\ session_state = << >>
    /\ use_density = FALSE
    /\ animate = FALSE
    /\ fig = NoFig
    /\ events = 0
    /\ last_event = ""

\* The script run that a change of a widget causes.
Run(name, ss, pressed, dens, anim) ==
    LET r == plot_attractor(name, ss, pressed, dens, anim)
    IN  /\ \E discard \in BOOLEAN :
              session_state' = Kept(r.session, name, discard)
        /\ lookup_name' = name
        /\ config' = GetAttractor(name)
        /\ param_values' = r.values
        /\ solution' = r.solution
        /\ fig' = r.fig
        /\ selected_name' = name
        /\ use_density' = dens
        /\ animate' = anim
        /\ UNCHANGED <<frameVars, densityVars>>

\* The values a user may drag a slider to.
SliderChoices(p) == {p.min_val, p.min_val + p.step, p.default, p.max_val}

Load ==
    /\ ~fig.drawn
    /\ Run(selected_name, session_state, FALSE, use_density, animate)
    /\ last_event' = "load"
    /\ UNCHANGED events

SelectAttractor(name) ==
    /\ fig.drawn /\ events < MaxEvents
    /\ name # selected_name
    /\ Run(name, session_state, FALSE, use_density, animate)
    /\ last_event' = "selectbox"
    /\ events' = events + 1

MoveSlider(i, v) ==
    LET p == ATTRACTORS[selected_name].params[i]
        key == SliderKey(selected_name, p.name)
    IN  /\ fig.drawn /\ events < MaxEvents
        /\ key \in DOMAIN session_state
        /\ v # session_state[key]
        /\ Run(selected_name, SessionSet(session_state, key, v), FALSE,
               use_density, animate)
        /\ last_event' = "slider"
        /\ events' = events + 1

Reset ==
    /\ fig.drawn /\ events < MaxEvents
    /\ Run(selected_name,
           reset_parameters(ATTRACTORS[selected_name], selected_name,
                            session_state),
           FALSE, use_density, animate)
    /\ last_event' = "Reset"
    /\ events' = events + 1

SaveValues ==
    /\ fig.drawn /\ events < MaxEvents
    /\ Run(selected_name, session_state, TRUE, use_density, animate)
    /\ last_event' = "Save values"
    /\ events' = events + 1

ToggleDensity ==
    /\ fig.drawn /\ events < MaxEvents
    /\ Run(selected_name, session_state, FALSE, ~use_density, animate)
    /\ last_event' = "density"
    /\ events' = events + 1

ToggleAnimate ==
    /\ fig.drawn /\ events < MaxEvents
    /\ Run(selected_name, session_state, FALSE, use_density, ~animate)
    /\ last_event' = "animate"
    /\ events' = events + 1

Next ==
    \/ Load
    \/ \E name \in AttractorNames : SelectAttractor(name)
    \/ \E i \in 1..Len(ATTRACTORS[selected_name].params) :
          \E v \in SliderChoices(ATTRACTORS[selected_name].params[i]) :
              MoveSlider(i, v)
    \/ Reset
    \/ SaveValues
    \/ ToggleDensity
    \/ ToggleAnimate

Spec == Init /\ [][Next]_vars

saved_values == session_state["saved_values"]

\* C9: every call the script makes to solve_attractor passes one value for
\* each parameter of the selected attractor, in schema order and within the
\* parameter's [min_val, max_val]; the value is the one held under the
\* selected attractor's own slider key, and the solver returns a trajectory.
C9_CallWithinBounds ==
    fig.drawn =>
        LET cfg == ATTRACTORS[selected_name]
        IN  /\ config.value = cfg
            /\ Len(param_values) = Len(cfg.params)
            /\ \A i \in 1..Len(cfg.params) :
                  /\ param_values[i][1] = cfg.params[i].name
                  /\ cfg.params[i].min_val <= param_values[i][2]
                  /\ param_values[i][2] <= cfg.params[i].max_val
                  /\ (selected_name \o "_" \o cfg.params[i].name)
                         \in DOMAIN session_state
                  /\ param_values[i][2] =
                         session_state[selected_name \o "_"
                                           \o cfg.params[i].name]
            /\ solution.error = "none"
            /\ solution.args = [i \in 1..Len(cfg.params) |-> param_values[i][2]]

\* Dadras a was dragged to its minimum, below Rossler's range, and Rossler is
\* now drawn with its own a.
C9_Witness ==
    /\ fig.drawn
    /\ selected_name = "Rossler"
    /\ "Dadras_a" \in DOMAIN session_state
    /\ session_state["Dadras_a"] = ATTRACTORS["Dadras"].params[1].min_val
    /\ session_state["Dadras_a"] < ATTRACTORS["Rossler"].params[1].min_val
    /\ param_values[1] = <<"a", ATTRACTORS["Rossler"].params[1].default>>

IsSliderKeyOf(name, k) ==
    \E i \in 1..Len(ATTRACTORS[name].params) :
        k = name \o "_" \o ATTRACTORS[name].params[i].name

CurrentValues ==
    [i \in 1..Len(ATTRACTORS[selected_name].params) |->
        <<ATTRACTORS[selected_name].params[i].name,
          session_state[selected_name \o "_"
                            \o ATTRACTORS[selected_name].params[i].name]>>]

ResetEffect ==
    Reset =>
        /\ selected_name' = selected_name
        /\ \A i \in 1..Len(ATTRACTORS[selected_name].params) :
              session_state'[selected_name \o "_"
                                 \o ATTRACTORS[selected_name].params[i].name]
                  = ATTRACTORS[selected_name].params[i].default
        /\ session_state'["saved_values"] = saved_values
        /\ DOMAIN session_state' \subseteq DOMAIN session_state
        /\ \A k \in DOMAIN session_state' :
              ~IsSliderKeyOf(selected_name, k) =>
                  session_state'[k] = session_state[k]

SavedValuesGrow ==
    fig.drawn =>
        /\ SaveValues => session_state'["saved_values"]
                             = Append(saved_values, CurrentValues)
        /\ \/ session_state'["saved_values"] = saved_values
           \/ /\ last_event' = "Save values"
              /\ session_state'["saved_values"]
                     = Append(saved_values, CurrentValues)

\* C10: Reset puts every parameter of the selected attractor at its default
\* and leaves the saved parameter sets and every other slider value as they
\* were; saved_values changes only by Save appending the current value of
\* every parameter of the selected attractor.
C10_ResetAndSaveFrame == [][ResetEffect /\ SavedValuesGrow]_vars

\* Reset acted on sliders that were off their defaults, with a saved set.
C10_Witness ==
    /\ last_event = "Reset"
    /\ Len(saved_values) = 1
    /\ saved_values[1] # get_default_params(ATTRACTORS[selected_name])
    /\ param_values = get_default_params(ATTRACTORS[selected_name])

====
